---- MODULE Spec2Model ----
(***************************************************************************)
(* llm-content-eval: experiment orchestration and blind evaluation.        *)
(*                                                                         *)
(* The persisted state is the three tables Experiment, Generation and      *)
(* Evaluation (app/models.py); the transient state is the process-wide     *)
(* blind_id_cache of EvaluationService and the background sweeps           *)
(* (generate_all_for_experiment) scheduled by the generations router.      *)
(*                                                                         *)
(* Scheduling.  The evaluation and experiment routes are plain `def`       *)
(* handlers: FastAPI runs each in a worker thread.  The generation routes  *)
(* and the background sweep are `async def`: they run on the one event     *)
(* loop and give it up only at an await that suspends, which in this code  *)
(* is the asyncio.sleep(1) after a Generation was created.                 *)
(* Every handler is one step, except the sweep, a sequence of steps        *)
(* (begin, existence check, creation, finish) that other handlers may      *)
(* interleave with, coroutines only where the sweep has given up the event *)
(* loop; and, in SpecConc, submit_evaluation, which worker threads run one *)
(* statement group at a time.                                              *)
(*   Spec       the pipeline: sweeps, blind evaluation, completion         *)
(*   SpecSweep  the generation side: sweeps, single generations, status    *)
(*              updates, deletes                                           *)
(*   SpecEval   the evaluation side over single generations                *)
(*   SpecConc   the evaluation side with concurrent submissions            *)
(***************************************************************************)
EXTENDS Integers, Sequences, FiniteSets, TLC

\* ------------------------------------------------------------- bounds
\* Rows the generations table may hold, and background sweeps in flight.
MaxGenerations == 2
MaxSweeps == 2
\* The longest pool of baseline samples.
MaxPool == 3

\* ------------------------------------------------------- program data
NULL == 0

\* Column(String) status values, app/models.py Experiment.status
valid_statuses == <<"setup", "generating", "evaluating", "complete">>

\* class PromptStrategy(str, enum.Enum)
PromptStrategyValues == {"structured", "example_based"}

\* The 8-character identifiers of generate_blind_id, cut to a small alphabet.
BlindIds == {"B1", "B2"}

\* Request bodies of create_experiment: the selected lists of an experiment.
\* The second one selects two models of one provider. Only the task ids are
\* validated: the fourth names a strategy that is no PromptStrategy value, the
\* fifth has a model entry without the "provider" key.
ExperimentCreate ==
    { [selected_models |-> <<[provider |-> "openai", model |-> "gpt-4"]>>,
       selected_strategies |-> <<"structured">>,
       selected_tasks |-> <<"A">>],
      [selected_models |-> <<[provider |-> "openai", model |-> "gpt-4"],
                             [provider |-> "openai", model |-> "gpt-3.5-turbo"]>>,
       selected_strategies |-> <<"structured">>,
       selected_tasks |-> <<"A">>],
      [selected_models |-> <<[provider |-> "openai", model |-> "gpt-4"],
                             [provider |-> "anthropic", model |-> "claude-3-opus"]>>,
       selected_strategies |-> <<"structured">>,
       selected_tasks |-> <<"A">>],
      [selected_models |-> <<[provider |-> "openai", model |-> "gpt-4"]>>,
       selected_strategies |-> <<"freeform", "structured">>,
       selected_tasks |-> <<"A">>],
      [selected_models |-> <<[provider |-> "openai", model |-> "gpt-4"],
                             [name |-> "gpt-4"]>>,
       selected_strategies |-> <<"structured">>,
       selected_tasks |-> <<"A">>] }

\* Python's None, as LLMClient.generate returns it for the content.
None == "None"

\* What LLMClient.generate hands back as content: text, or None on any failure.
LLMContents == {"text", None}

VARIABLES
    experiments,     \* table experiments: set of rows
    generations,     \* table generations: set of rows
    evaluations,     \* table evaluations: set of rows
    blind_id_cache,  \* EvaluationService.blind_id_cache: blind_id -> generation id
    sweeps,          \* background tasks run_all_generations, by slot
    loop_owner,      \* the coroutine holding the event loop (0: none)
    submits,         \* worker threads inside submit_evaluation
    response,        \* the last response sent
    swept            \* history: ids of the Generations a sweep created

vars == <<experiments, generations, evaluations, blind_id_cache, sweeps,
          loop_owner, submits, response, swept>>

\* ------------------------------------------------------------ helpers
Max(S) == IF S = {} THEN 0 ELSE CHOOSE x \in S : \A y \in S : y <= x
Min(S) == CHOOSE x \in S : \A y \in S : x <= y

\* INTEGER PRIMARY KEY of SQLite: one more than the largest id in the table.
NextId(table) == Max({r.id : r \in table}) + 1

\* One experiment row at a time; a deleted experiment's id is handed out again.
ExperimentIds == {1}
SweepIds == 1..MaxSweeps
Threads == {1, 2}

\* db.query(Experiment).filter(Experiment.id == experiment_id).first()
ExperimentRows(experiment_id) == {x \in experiments : x.id = experiment_id}
ExperimentRow(experiment_id) == CHOOSE x \in experiments : x.id = experiment_id

\* db.query(Generation).filter(Generation.id == generation_id).first()
GenerationRow(generation_id) == CHOOSE g \in generations : g.id = generation_id

GenerationsOf(experiment_id) == {g \in generations : g.experiment_id = experiment_id}
EvaluationsOf(experiment_id) == {v \in evaluations : v.experiment_id = experiment_id}
EvaluationsFor(generation_id) == {v \in evaluations : v.generation_id = generation_id}

\* A slot no background task occupies.
IdleSweep == [pc |-> "idle", experiment_id |-> NULL, i |-> 0, completed |-> 0,
              total_combinations |-> 0, created |-> 0, existing0 |-> 0, count0 |-> 0,
              calls |-> << >>]

\* A slot whose background task has returned.
DoneSweep == [IdleSweep EXCEPT !.pc = "done"]

\* A worker thread outside submit_evaluation.
IdleThread == [pc |-> "idle", blind_id |-> "", generation_id |-> NULL,
               experiment_id |-> NULL, inserted |-> FALSE, code |-> 0]

Respond(op, code, detail) == [op |-> op, code |-> code, detail |-> detail]

Init ==
    /\ experiments = {}
    /\ generations = {}
    /\ evaluations = {}
    /\ blind_id_cache = << >>
    /\ sweeps = [s \in SweepIds |-> IdleSweep]
    /\ loop_owner = 0
    /\ submits = [t \in Threads |-> IdleThread]
    /\ response = Respond("startup", 200, "")
    /\ swept = {}

\* ------------------------------------------------- experiments router
create_experiment(body) ==
    /\ NextId(experiments) \in ExperimentIds
    /\ experiments' = experiments \cup
         {[id |-> NextId(experiments), status |-> "setup",
           selected_models |-> body.selected_models,
           selected_strategies |-> body.selected_strategies,
           selected_tasks |-> body.selected_tasks]}
    /\ response' = Respond("create_experiment", 200, "")
    /\ UNCHANGED <<generations, evaluations, blind_id_cache, sweeps, loop_owner, submits, swept>>

\* Mutant: every status value is taken.
AnyStatusValid(status) == TRUE

\* status in valid_statuses
ValidStatus(status) == \E k \in DOMAIN valid_statuses : valid_statuses[k] = status

\* PUT /api/experiments/{experiment_id}/status
update_experiment_status(experiment_id, status) ==
    /\ IF ExperimentRows(experiment_id) = {}
       THEN /\ response' = Respond("update_experiment_status", 404, "Experiment not found")
            /\ UNCHANGED experiments
       ELSE IF ~ValidStatus(status)
       THEN /\ response' = Respond("update_experiment_status", 400, "Invalid status")
            /\ UNCHANGED experiments
       ELSE /\ experiments' = {IF x.id = experiment_id THEN [x EXCEPT !.status = status] ELSE x
                                : x \in experiments}
            /\ response' = Respond("update_experiment_status", 200, status)
    /\ UNCHANGED <<generations, evaluations, blind_id_cache, sweeps, loop_owner, submits, swept>>

\* Experiment.generations and Experiment.evaluations are declared without a
\* delete cascade: on db.delete(experiment) the unit of work detaches the
\* children (foreign key NULL) and keeps their rows.
DetachGenerations(experiment_id) ==
    {IF g.experiment_id = experiment_id THEN [g EXCEPT !.experiment_id = NULL] ELSE g
       : g \in generations}

DetachEvaluations(experiment_id) ==
    {IF v.experiment_id = experiment_id THEN [v EXCEPT !.experiment_id = NULL] ELSE v
       : v \in evaluations}

\* DELETE /api/experiments/{experiment_id}, taken while no sweep of the
\* experiment is in flight.
delete_experiment(experiment_id) ==
    /\ \A s \in SweepIds : sweeps[s].pc \in {"loop", "create"} => sweeps[s].experiment_id # experiment_id
    /\ IF ExperimentRows(experiment_id) = {}
       THEN /\ response' = Respond("delete_experiment", 404, "Experiment not found")
            /\ UNCHANGED <<experiments, generations, evaluations>>
       ELSE /\ experiments' = {x \in experiments : x.id # experiment_id}
            /\ generations' = DetachGenerations(experiment_id)
            /\ evaluations' = DetachEvaluations(experiment_id)
            /\ response' = Respond("delete_experiment", 200, "")
    /\ UNCHANGED <<blind_id_cache, sweeps, loop_owner, submits, swept>>

\* ------------------------------------------------- generation service
\* The tasks table, loaded once at startup: the task the experiments select.
\* Texts are sequences of words; a placeholder is one word.
tasks == {[id |-> "A", content_type |-> "blog_intro", title |-> "Task A",
           description |-> "Brief of task A",
           structured_prompt |-> <<"Write", "an", "intro">>,
           example_prompt_template |->
               <<"Like", "{sample1}", "and", "{sample2}", "write", "an", "intro">>]}

\* db.query(Task).filter(Task.id == generation.task_id).first()
TaskRow(task_id) == CHOOSE t \in tasks : t.id = task_id

\* total_combinations of generate_all_for_experiment
TotalCombinations(x) ==
    Len(x.selected_models) * Len(x.selected_strategies) * Len(x.selected_tasks)

\* The model entry the outer loop is at for the i-th combination.
ModelAt(x, i) ==
    x.selected_models[((i - 1) \div (Len(x.selected_strategies) * Len(x.selected_tasks))) + 1]

\* model_config["provider"] and model_config["model"] succeed.
WellFormedModel(m) == {"provider", "model"} \subseteq DOMAIN m

\* The i-th combination in the order of the three nested loops.
Combination(x, i) ==
    LET ls == Len(x.selected_strategies)
        lt == Len(x.selected_tasks)
        m  == x.selected_models[((i - 1) \div (ls * lt)) + 1]
    IN [provider |-> m.provider, model |-> m.model,
        strategy |-> x.selected_strategies[(((i - 1) \div lt) % ls) + 1],
        task_id  |-> x.selected_tasks[((i - 1) % lt) + 1]]

\* Mutant: the query counts only Generations whose call succeeded.
ExistingSuccessfulGeneration(experiment_id, task_id, provider, strategy) ==
    {g \in generations : /\ g.experiment_id = experiment_id
                         /\ g.task_id = task_id
                         /\ g.model_provider = provider
                         /\ g.prompt_strategy = strategy
                         /\ g.generated_content # ""}

\* The existence query of the sweep: keyed by experiment, task, provider, strategy.
ExistingGeneration(experiment_id, task_id, provider, strategy) ==
    {g \in generations : /\ g.experiment_id = experiment_id
                         /\ g.task_id = task_id
                         /\ g.model_provider = provider
                         /\ g.prompt_strategy = strategy}

\* Mutant: a failed call is billed like a successful one.
FailedCallBilled(content) ==
    [prompt_tokens |-> 12, completion_tokens |-> 34, cost_usd |-> 5]

\* The metadata LLMClient.generate returns with the content: the usage and its
\* cost after a successful call; the error and zeros from the except branch.
Metadata(content) ==
    IF content = None
    THEN [error |-> "provider call failed", prompt_tokens |-> 0,
          completion_tokens |-> 0, cost_usd |-> 0]
    ELSE [prompt_tokens |-> 12, completion_tokens |-> 34, cost_usd |-> 5]

\* metadata.get(key, 0)
MetadataGet(metadata, key) == IF key \in DOMAIN metadata THEN metadata[key] ELSE 0

\* content if content else ""
StoredContent(content) == IF content \in {None, ""} THEN "" ELSE content

\* Mutant: generate_single hands back the stored Generation of the key, if any.
ExistingOrNewGeneration(experiment_id, task_id, provider, model, strategy, content) ==
    IF ExistingGeneration(experiment_id, task_id, provider, strategy) # {}
    THEN CHOOSE g \in ExistingGeneration(experiment_id, task_id, provider, strategy) : TRUE
    ELSE [id |-> NextId(generations), experiment_id |-> experiment_id, task_id |-> task_id,
          model_provider |-> provider, model_name |-> model, prompt_strategy |-> strategy,
          generated_content |-> StoredContent(content),
          prompt_tokens |-> MetadataGet(Metadata(content), "prompt_tokens"),
          completion_tokens |-> MetadataGet(Metadata(content), "completion_tokens"),
          cost_usd |-> MetadataGet(Metadata(content), "cost_usd")]

\* str.replace(old, new) on a text, old being one word: every occurrence of
\* old gives way to the words of new.
RECURSIVE Replace(_, _, _)
Replace(text, old, new) ==
    IF text = << >> THEN << >>
    ELSE (IF Head(text) = old THEN new ELSE <<Head(text)>>) \o Replace(Tail(text), old, new)

\* The samples prepare_prompt works with: random.sample(baseline_samples, 2)
\* takes the entries at two different positions i and j, in that order; a
\* shorter pool is doubled.
PromptSamples(baseline_samples, i, j) ==
    IF Len(baseline_samples) >= 2
    THEN <<baseline_samples[i], baseline_samples[j]>>
    ELSE baseline_samples \o baseline_samples

\* What prepare_prompt returns for a PromptStrategy value: the second replace
\* works on the result of the first.
PreparedPrompt(task, strategy, baseline_samples, i, j) ==
    IF strategy = "structured" THEN task.structured_prompt
    ELSE LET samples == PromptSamples(baseline_samples, i, j)
             prompt == Replace(task.example_prompt_template, "{sample1}",
                               IF samples # << >> THEN samples[1] ELSE << >>)
         IN Replace(prompt, "{sample2}", IF Len(samples) > 1 THEN samples[2] ELSE << >>)

\* One call of prepare_prompt; the answer keeps the arguments next to the
\* prompt. A strategy outside PromptStrategy raises ValueError.
prepare_prompt(task, strategy, baseline_samples, i, j) ==
    /\ Len(baseline_samples) >= 2 => i # j
    /\ Len(baseline_samples) < 2 => (i = 1 /\ j = 1)
    /\ IF strategy \in PromptStrategyValues
       THEN response' = Respond("prepare_prompt", 200,
                [task_id |-> task.id, strategy |-> strategy,
                 baseline_samples |-> baseline_samples, i |-> i, j |-> j,
                 prompt |-> PreparedPrompt(task, strategy, baseline_samples, i, j)])
       ELSE response' = Respond("prepare_prompt", 500, "Unknown strategy")
    /\ UNCHANGED <<experiments, generations, evaluations, blind_id_cache, sweeps,
                   loop_owner, submits, swept>>

\* The Generation row generate_single adds: content is "" when the call failed.
NewGeneration(experiment_id, task_id, provider, model, strategy, content) ==
    [id |-> NextId(generations), experiment_id |-> experiment_id, task_id |-> task_id,
     model_provider |-> provider, model_name |-> model, prompt_strategy |-> strategy,
     generated_content |-> StoredContent(content),
     prompt_tokens |-> MetadataGet(Metadata(content), "prompt_tokens"),
     completion_tokens |-> MetadataGet(Metadata(content), "completion_tokens"),
     cost_usd |-> MetadataGet(Metadata(content), "cost_usd")]

\* generate_single raises before the insert when the experiment or the task
\* is absent or the strategy is no PromptStrategy value.
GenerateSingleRaises(experiment_id, task_id, strategy) ==
    \/ ExperimentRows(experiment_id) = {}
    \/ \A t \in tasks : t.id # task_id
    \/ strategy \notin PromptStrategyValues

\* Mutant: coroutines run whoever holds the event loop.
LoopAlwaysFree(s) == TRUE

\* A coroutine may run when no other coroutine holds the event loop
\* (s = 0: a coroutine that holds nothing yet).
LoopFree(s) == loop_owner \in {0, s}

FreeSweepSlots == {s \in SweepIds : sweeps[s].pc \in {"idle", "done"}}

\* POST /api/generations/start with run_all: the background task is scheduled and
\* runs to the top of the loop; an unknown experiment raises inside the task and
\* run_all_generations swallows it.
start_generation(experiment_id) ==
    /\ LoopFree(0)
    /\ FreeSweepSlots # {}
    /\ response' = Respond("start_generation", 200, "Generation started in background")
    /\ IF ExperimentRows(experiment_id) = {}
       THEN UNCHANGED <<experiments, sweeps, loop_owner>>
       ELSE LET s == Min(FreeSweepSlots)
                x == ExperimentRow(experiment_id)
            IN /\ experiments' = {IF y.id = experiment_id THEN [y EXCEPT !.status = "generating"] ELSE y
                                   : y \in experiments}
               /\ sweeps' = [sweeps EXCEPT ![s] =
                    [pc |-> "loop", experiment_id |-> experiment_id, i |-> 1,
                     completed |-> 0, total_combinations |-> TotalCombinations(x),
                     created |-> 0,
                     existing0 |-> Cardinality({k \in 1..TotalCombinations(x) :
                                     /\ WellFormedModel(ModelAt(x, k))
                                     /\ LET c == Combination(x, k)
                                        IN \E g \in GenerationsOf(experiment_id) :
                                           /\ g.task_id = c.task_id
                                           /\ g.model_provider = c.provider
                                           /\ g.model_name = c.model
                                           /\ g.prompt_strategy = c.strategy}),
                     count0 |-> Cardinality(GenerationsOf(experiment_id)),
                     calls |-> << >>]]
               /\ loop_owner' = s
    /\ UNCHANGED <<generations, evaluations, blind_id_cache, submits, swept>>

\* Mutant: the attempt is counted and not reported.
NotReported(w) == w.calls

\* completed += 1; progress_callback(completed, total_combinations): the calls
\* a progress sink receives from the sweep.
Reported(w) == Append(w.calls, <<w.completed + 1, w.total_combinations>>)

\* One pass of the loop body up to the branch on `existing`. The loop header
\* reads model_config["provider"] outside the try: on an entry without that key
\* the KeyError leaves generate_all_for_experiment, run_all_generations prints
\* it, and the task is over with the status as it was.
SweepCheck(s) ==
    /\ sweeps[s].pc = "loop"
    /\ sweeps[s].i <= sweeps[s].total_combinations
    /\ LoopFree(s)
    /\ LET w == sweeps[s]
           x == ExperimentRow(w.experiment_id)
       IN IF ~WellFormedModel(ModelAt(x, w.i))
          THEN /\ sweeps' = [sweeps EXCEPT ![s] = DoneSweep]
               /\ loop_owner' = 0
          ELSE LET c == Combination(x, w.i)
               IN /\ IF ExistingGeneration(w.experiment_id, c.task_id, c.provider, c.strategy) # {}
                     THEN sweeps' = [sweeps EXCEPT ![s].i = w.i + 1,
                                                   ![s].completed = w.completed + 1,
                                                   ![s].calls = Reported(w)]
                     ELSE sweeps' = [sweeps EXCEPT ![s].pc = "create"]
                  /\ loop_owner' = s
    /\ UNCHANGED <<experiments, generations, evaluations, blind_id_cache, submits, response, swept>>

\* Mutant: an exception in one attempt ends the sweep.
SweepEndedByException(w) == DoneSweep

\* The except branch: the attempt is counted and the loop goes on.
AfterException(w) ==
    [w EXCEPT !.pc = "loop", !.i = w.i + 1, !.completed = w.completed + 1,
              !.calls = Reported(w)]

\* The else branch: generate_single, then asyncio.sleep(1), which gives up the loop.
SweepCreate(s, content) ==
    /\ sweeps[s].pc = "create"
    /\ LoopFree(s)
    /\ LET w == sweeps[s]
           c == Combination(ExperimentRow(w.experiment_id), w.i)
       IN IF GenerateSingleRaises(w.experiment_id, c.task_id, c.strategy)
          THEN /\ content = None
               /\ sweeps' = [sweeps EXCEPT ![s] = AfterException(w)]
               /\ loop_owner' = s
               /\ UNCHANGED <<generations, swept>>
          ELSE /\ Cardinality(generations) < MaxGenerations
               /\ generations' = generations \cup
                    {NewGeneration(w.experiment_id, c.task_id, c.provider, c.model, c.strategy, content)}
               /\ sweeps' = [sweeps EXCEPT ![s].pc = "loop", ![s].i = w.i + 1,
                                           ![s].completed = w.completed + 1,
                                           ![s].created = w.created + 1,
                                           ![s].calls = Reported(w)]
               /\ swept' = swept \cup {NextId(generations)}
               /\ loop_owner' = 0
    /\ UNCHANGED <<experiments, evaluations, blind_id_cache, submits, response>>

\* Mutant: a sweep that saw a failure leaves the status as it is.
StatusKeptAfterLoops(x) == x.status

\* The status the sweep sets after the loops, whatever the attempts gave.
StatusAfterLoops(x) == "evaluating"

\* After the loops: experiment.status = "evaluating"; db.commit()
SweepFinish(s) ==
    /\ sweeps[s].pc = "loop"
    /\ sweeps[s].i > sweeps[s].total_combinations
    /\ LoopFree(s)
    /\ experiments' = {IF x.id = sweeps[s].experiment_id
                        THEN [x EXCEPT !.status = StatusAfterLoops(x)] ELSE x
                        : x \in experiments}
    /\ sweeps' = [sweeps EXCEPT ![s] = DoneSweep]
    /\ loop_owner' = 0
    /\ UNCHANGED <<generations, evaluations, blind_id_cache, submits, response, swept>>

\* round(n / d, 0) on exact quotients: to the nearest integer, ties to even.
Round(n, d) ==
    LET q == n \div d
        r == n % d
    IN IF 2 * r > d \/ (2 * r = d /\ q % 2 = 1) THEN q + 1 ELSE q

\* The dict GenerationService.get_generation_progress returns for a stored
\* experiment. percentage is round(completed / total * 100, 1), held in tenths
\* of a percent.
generation_progress(x) ==
    LET total_expected == TotalCombinations(x)
        completed == Cardinality(GenerationsOf(x.id))
        failed == Cardinality({g \in GenerationsOf(x.id) : g.generated_content = ""})
    IN [experiment_id |-> x.id,
        status |-> x.status,
        total |-> total_expected,
        completed |-> completed,
        failed |-> failed,
        in_progress |-> IF x.status = "generating" THEN total_expected - completed ELSE 0,
        percentage |-> IF total_expected > 0 THEN Round(completed * 1000, total_expected) ELSE 0]

\* response_model=GenerationProgress: the fields of the schema are serialized,
\* status and percentage are dropped.
GenerationProgress(progress) ==
    [k \in {"experiment_id", "total", "completed", "in_progress", "failed"} |-> progress[k]]

\* GET /api/generations/progress/{experiment_id}
get_generation_progress(experiment_id) ==
    /\ IF ExperimentRows(experiment_id) = {}
       THEN response' = Respond("get_generation_progress", 404, "Experiment not found")
       ELSE response' = Respond("get_generation_progress", 200,
                                GenerationProgress(generation_progress(ExperimentRow(experiment_id))))
    /\ UNCHANGED <<experiments, generations, evaluations, blind_id_cache, sweeps,
                   loop_owner, submits, swept>>

\* POST /api/generations/single: always inserts, no existence query.
generate_single(experiment_id, task_id, provider, model, strategy, content) ==
    /\ LoopFree(0)
    /\ IF GenerateSingleRaises(experiment_id, task_id, strategy)
       THEN /\ content = None
            /\ response' = Respond("generate_single", 500, "")
            /\ UNCHANGED generations
       ELSE /\ Cardinality(generations) < MaxGenerations
            /\ generations' = generations \cup
                 {NewGeneration(experiment_id, task_id, provider, model, strategy, content)}
            /\ response' = Respond("generate_single", 200, "")
    /\ UNCHANGED <<experiments, evaluations, blind_id_cache, sweeps, loop_owner, submits, swept>>

\* ------------------------------------------------- evaluation service
\* ~Generation.evaluation.has(): the experiment's Generations without Evaluation
Unevaluated(experiment_id) ==
    {g \in GenerationsOf(experiment_id) : EvaluationsFor(g.id) = {}}

\* Mutant: the item also carries the Generation's model.
LabelledBlindItem(blind_id, generation) ==
    [blind_id |-> blind_id,
     content |-> generation.generated_content,
     task_title |-> TaskRow(generation.task_id).title,
     task_description |-> generation.model_name,
     content_type |-> TaskRow(generation.task_id).content_type]

\* The BlindItem get_next_blind_item returns for the Generation it picked.
BlindItem(blind_id, generation) ==
    [blind_id |-> blind_id,
     content |-> generation.generated_content,
     task_title |-> TaskRow(generation.task_id).title,
     task_description |-> TaskRow(generation.task_id).description,
     content_type |-> TaskRow(generation.task_id).content_type]

\* get_next_blind_item: random.choice over the unevaluated Generations and a
\* random identifier, recorded in the cache whatever the cache holds.
get_next_blind_item(experiment_id, g, blind_id) ==
    /\ IF Unevaluated(experiment_id) = {}
       THEN /\ g = NULL
            /\ response' = Respond("get_next_blind_item", 200, "null")
            /\ UNCHANGED blind_id_cache
       ELSE /\ g \in {u.id : u \in Unevaluated(experiment_id)}
            /\ blind_id_cache' = [b \in DOMAIN blind_id_cache \cup {blind_id} |->
                                    IF b = blind_id THEN g ELSE blind_id_cache[b]]
            /\ response' = Respond("get_next_blind_item", 200, blind_id)
    /\ UNCHANGED <<experiments, generations, evaluations, sweeps, loop_owner, submits, swept>>

\* Mutant: the cache keeps the entry.
CacheKept(blind_id) == blind_id_cache

\* del self.blind_id_cache[blind_id]
CacheWithout(blind_id) ==
    [b \in DOMAIN blind_id_cache \ {blind_id} |-> blind_id_cache[b]]

\* Mutant: completion on any Evaluation, whatever the counts.
CompleteOnAnyEvaluation(exps, gens, evals, experiment_id) ==
    IF \E v \in evals : v.experiment_id = experiment_id
    THEN {IF x.id = experiment_id THEN [x EXCEPT !.status = "complete"] ELSE x : x \in exps}
    ELSE exps

\* _check_experiment_completion over the tables gens, evals: the experiments table after it.
check_experiment_completion(exps, gens, evals, experiment_id) ==
    LET total_generations == Cardinality({g \in gens : g.experiment_id = experiment_id})
        total_evaluations == Cardinality({v \in evals : v.experiment_id = experiment_id})
    IN IF total_generations > 0 /\ total_generations = total_evaluations
       THEN {IF x.id = experiment_id THEN [x EXCEPT !.status = "complete"] ELSE x : x \in exps}
       ELSE exps

\* The fields of class EvaluationSubmit that have no default.
EvaluationSubmitFields ==
    {"blind_id", "voice_match", "coherence", "engaging", "meets_brief",
     "overall_quality", "edit_time_minutes", "would_publish"}

\* What the EvaluationSubmit model asks of a request body: every field without
\* a default is there. The scores are declared int and would_publish str,
\* without bounds or choices.
EvaluationSubmitAccepts(evaluation_data) ==
    EvaluationSubmitFields \subseteq DOMAIN evaluation_data

\* A body as the evaluation form sends it.
EvaluationBody(blind_id) ==
    [blind_id |-> blind_id, voice_match |-> 3, coherence |-> 3, engaging |-> 3,
     meets_brief |-> 3, overall_quality |-> 3, edit_time_minutes |-> 10,
     would_publish |-> "yes"]

\* Mutant: the Evaluation does not record the blind id.
AnonymousEvaluation(generation_id, experiment_id, evaluation_data) ==
    [id |-> NextId(evaluations), generation_id |-> generation_id,
     experiment_id |-> experiment_id, blind_id |-> "",
     voice_match |-> evaluation_data.voice_match,
     coherence |-> evaluation_data.coherence,
     engaging |-> evaluation_data.engaging,
     meets_brief |-> evaluation_data.meets_brief,
     overall_quality |-> evaluation_data.overall_quality,
     would_publish |-> evaluation_data.would_publish]

\* The Evaluation row submit_evaluation adds, its fields copied from the body.
NewEvaluation(generation_id, experiment_id, evaluation_data) ==
    [id |-> NextId(evaluations), generation_id |-> generation_id,
     experiment_id |-> experiment_id, blind_id |-> evaluation_data.blind_id,
     voice_match |-> evaluation_data.voice_match,
     coherence |-> evaluation_data.coherence,
     engaging |-> evaluation_data.engaging,
     meets_brief |-> evaluation_data.meets_brief,
     overall_quality |-> evaluation_data.overall_quality,
     would_publish |-> evaluation_data.would_publish]

\* Mutant: submit_evaluation without its existence check.
NoExistingEval(generation_id) == {}

\* The existence check of submit_evaluation, by generation_id.
ExistingEval(generation_id) == EvaluationsFor(generation_id)

\* Mutant: every identifier the cache does not hold is reported as evaluated.
AlwaysAlreadyExists(blind_id) == "Evaluation already exists for blind_id"

\* The ValueError for an identifier the cache does not hold.
UnknownBlindId(blind_id) ==
    IF \E v \in evaluations : v.blind_id = blind_id
    THEN "Evaluation already exists for blind_id" ELSE "Invalid blind_id"

\* Mutant: an identifier the cache does not hold resolves to the newest Generation.
CacheGetAny(blind_id) ==
    IF blind_id \in DOMAIN blind_id_cache THEN blind_id_cache[blind_id]
    ELSE Max({g.id : g \in generations})

\* self.blind_id_cache.get(blind_id): None for an identifier the cache does not hold
CacheGet(blind_id) ==
    IF blind_id \in DOMAIN blind_id_cache THEN blind_id_cache[blind_id] ELSE NULL

\* POST /api/evaluations/ with body evaluation_data: submit_evaluation as one
\* step; a body the schema refuses is answered 422 before the handler, a
\* ValueError becomes 400.
submit_evaluation_data(evaluation_data) ==
    /\ IF ~EvaluationSubmitAccepts(evaluation_data)
       THEN /\ response' = Respond("submit_evaluation", 422, "Field required")
            /\ UNCHANGED <<experiments, evaluations, blind_id_cache>>
       ELSE IF CacheGet(evaluation_data.blind_id) = NULL
       THEN /\ response' = Respond("submit_evaluation", 400,
                                   UnknownBlindId(evaluation_data.blind_id))
            /\ UNCHANGED <<experiments, evaluations, blind_id_cache>>
       ELSE LET generation_id == CacheGet(evaluation_data.blind_id)
                blind_id == evaluation_data.blind_id
            IN IF \A g \in generations : g.id # generation_id
               THEN /\ response' = Respond("submit_evaluation", 400, "Generation not found")
                    /\ UNCHANGED <<experiments, evaluations, blind_id_cache>>
               ELSE IF ExistingEval(generation_id) # {}
               THEN /\ response' = Respond("submit_evaluation", 400,
                                           "Evaluation already exists for generation")
                    /\ UNCHANGED <<experiments, evaluations, blind_id_cache>>
               ELSE LET e == GenerationRow(generation_id).experiment_id
                    IN /\ evaluations' = evaluations \cup
                                             {NewEvaluation(generation_id, e, evaluation_data)}
                       /\ blind_id_cache' = CacheWithout(blind_id)
                       /\ experiments' = check_experiment_completion(
                                            experiments, generations, evaluations', e)
                       /\ response' = Respond("submit_evaluation", 200, blind_id)
    /\ UNCHANGED <<generations, sweeps, loop_owner, submits, swept>>

\* The request of the evaluation form for blind_id.
submit_evaluation(blind_id) == submit_evaluation_data(EvaluationBody(blind_id))

\* Mutant: an identifier of a stored Evaluation also counts as outstanding.
OutstandingOrUsed(blind_id) ==
    \/ blind_id \in DOMAIN blind_id_cache
    \/ \E v \in evaluations : v.blind_id = blind_id

\* blind_id in self.blind_id_cache
Outstanding(blind_id) == blind_id \in DOMAIN blind_id_cache

\* POST /api/evaluations/skip/{blind_id}
skip_blind_item(blind_id) ==
    /\ IF Outstanding(blind_id)
       THEN /\ blind_id_cache' = CacheWithout(blind_id)
            /\ response' = Respond("skip_blind_item", 200, "Item skipped")
       ELSE /\ response' = Respond("skip_blind_item", 404, "Blind item not found")
            /\ UNCHANGED blind_id_cache
    /\ UNCHANGED <<experiments, generations, evaluations, sweeps, loop_owner, submits, swept>>

\* DELETE /api/evaluations/{evaluation_id}
delete_evaluation(evaluation_id) ==
    /\ IF \E v \in evaluations : v.id = evaluation_id
       THEN /\ evaluations' = {v \in evaluations : v.id # evaluation_id}
            /\ response' = Respond("delete_evaluation", 200, "")
       ELSE /\ response' = Respond("delete_evaluation", 404, "Evaluation not found")
            /\ UNCHANGED evaluations
    /\ UNCHANGED <<experiments, generations, blind_id_cache, sweeps, loop_owner, submits, swept>>

\* ---------------------------------------------------- reveal
\* Mutant: the lookup finds any stored Evaluation, whatever its blind_id.
AnyEvaluation(blind_id) == evaluations

\* Mutant: the details name no model.
WithheldProvenance(generation) == "withheld"

\* db.query(Evaluation).filter(Evaluation.blind_id == blind_id)
EvaluationsWithBlindId(blind_id) == {v \in evaluations : v.blind_id = blind_id}

\* The provenance fields of the details reveal_generation_details returns,
\* read from evaluation.generation.
Provenance(generation) ==
    generation.model_provider \o "/" \o generation.model_name
        \o "/" \o generation.prompt_strategy

\* GET /reveal/{blind_id}: .first() of a query without ORDER BY is any row of
\* the result (evaluation_id); no row is answered 404.
reveal_generation_details(blind_id, evaluation_id) ==
    /\ IF EvaluationsWithBlindId(blind_id) = {}
       THEN /\ evaluation_id = NULL
            /\ response' = Respond("reveal_generation_details", 404, "Evaluation not found")
       ELSE \E v \in EvaluationsWithBlindId(blind_id) :
               /\ v.id = evaluation_id
               /\ response' = Respond("reveal_generation_details", 200,
                                      Provenance(GenerationRow(v.generation_id)))
    /\ UNCHANGED <<experiments, generations, evaluations, blind_id_cache, sweeps,
                   loop_owner, submits, swept>>

\* Mutant: the registry survives the restart.
RegistryKept == blind_id_cache

\* self.blind_id_cache = {} of a newly constructed EvaluationService
EmptyRegistry == << >>

\* A process restart: EvaluationService() is constructed anew and the background
\* tasks are gone; the tables stay.
restart ==
    /\ blind_id_cache' = EmptyRegistry
    /\ sweeps' = [s \in SweepIds |-> IdleSweep]
    /\ loop_owner' = 0
    /\ submits' = [t \in Threads |-> IdleThread]
    /\ response' = Respond("startup", 200, "")
    /\ UNCHANGED <<experiments, generations, evaluations, swept>>

\* ------------------------------------- submit_evaluation, by thread
\* One request per worker thread.
\* Lines 54-64: the cache lookup; an unknown blind_id raises ValueError.
SubmitLookup(t, blind_id) ==
    /\ submits[t].pc = "idle"
    /\ IF blind_id \notin DOMAIN blind_id_cache
       THEN submits' = [submits EXCEPT ![t] =
               [IdleThread EXCEPT !.pc = "done", !.blind_id = blind_id, !.code = 400]]
       ELSE submits' = [submits EXCEPT ![t] =
               [IdleThread EXCEPT !.pc = "query", !.blind_id = blind_id,
                                  !.generation_id = blind_id_cache[blind_id]]]
    /\ UNCHANGED <<experiments, generations, evaluations, blind_id_cache, sweeps,
                   loop_owner, response, swept>>

\* Lines 66-76: the Generation and the existence check.
SubmitQuery(t) ==
    /\ submits[t].pc = "query"
    /\ LET generation_id == submits[t].generation_id
       IN IF \A g \in generations : g.id # generation_id
          THEN submits' = [submits EXCEPT ![t].pc = "done", ![t].code = 400]
          ELSE IF ExistingEval(generation_id) # {}
          THEN submits' = [submits EXCEPT ![t].pc = "done", ![t].code = 400]
          ELSE submits' = [submits EXCEPT ![t].pc = "insert",
                             ![t].experiment_id = GenerationRow(generation_id).experiment_id]
    /\ UNCHANGED <<experiments, generations, evaluations, blind_id_cache, sweeps,
                   loop_owner, response, swept>>

\* Lines 78-96: db.add(evaluation); db.commit()
SubmitInsert(t) ==
    /\ submits[t].pc = "insert"
    /\ evaluations' = evaluations \cup
         {NewEvaluation(submits[t].generation_id, submits[t].experiment_id,
                        EvaluationBody(submits[t].blind_id))}
    /\ submits' = [submits EXCEPT ![t].pc = "release", ![t].inserted = TRUE]
    /\ UNCHANGED <<experiments, generations, blind_id_cache, sweeps, loop_owner, response, swept>>

\* Line 99: del self.blind_id_cache[blind_id]; a missing key raises KeyError,
\* which the router does not catch (a 500 response).
SubmitRelease(t) ==
    /\ submits[t].pc = "release"
    /\ IF submits[t].blind_id \in DOMAIN blind_id_cache
       THEN /\ blind_id_cache' = CacheWithout(submits[t].blind_id)
            /\ submits' = [submits EXCEPT ![t].pc = "complete"]
       ELSE /\ submits' = [submits EXCEPT ![t].pc = "done", ![t].code = 500,
                                          ![t].experiment_id = NULL]
            /\ UNCHANGED blind_id_cache
    /\ UNCHANGED <<experiments, generations, evaluations, sweeps, loop_owner, response, swept>>

\* Lines 101-104: _check_experiment_completion on the Generation's experiment,
\* read again after the commit expired the row.
SubmitComplete(t) ==
    /\ submits[t].pc = "complete"
    /\ experiments' = check_experiment_completion(experiments, generations, evaluations,
                         GenerationRow(submits[t].generation_id).experiment_id)
    /\ submits' = [submits EXCEPT ![t].pc = "done", ![t].code = 200,
                                   ![t].experiment_id = NULL]
    /\ UNCHANGED <<generations, evaluations, blind_id_cache, sweeps, loop_owner, response, swept>>

\* ------------------------------------------------------ specifications
StatusInputs == {valid_statuses[k] : k \in DOMAIN valid_statuses} \cup {"archived"}
SingleModels == {[provider |-> "openai", model |-> "gpt-4"]}
\* task_id parameters of generate_single: the stored task and an unknown one.
TaskInputs == {"A", "Z"}
\* The bodies whose model entries have both keys and whose strategies are
\* PromptStrategy values.
WellFormedExperiment ==
    {c \in ExperimentCreate :
        /\ \A k \in DOMAIN c.selected_models : WellFormedModel(c.selected_models[k])
        /\ \A k \in DOMAIN c.selected_strategies :
              c.selected_strategies[k] \in PromptStrategyValues}
SingleModelExperiment == {c \in WellFormedExperiment : Len(c.selected_models) = 1}

\* The pipeline: sweep, blind evaluation, completion detection.
Next ==
    \/ \E body \in WellFormedExperiment : create_experiment(body)
    \/ \E e \in ExperimentIds : start_generation(e)
    \/ \E s \in SweepIds : SweepCheck(s)
    \/ \E s \in SweepIds : SweepCreate(s, "text")
    \/ \E s \in SweepIds : SweepFinish(s)
    \/ \E e \in ExperimentIds, g \in {NULL} \cup {u.id : u \in generations}, b \in BlindIds :
          get_next_blind_item(e, g, b)
    \/ \E b \in BlindIds : submit_evaluation(b)
    \/ \E b \in BlindIds : skip_blind_item(b)
    \/ \E id \in 1..(Cardinality(evaluations) + 1) : delete_evaluation(id)
    \/ restart

Spec == Init /\ [][Next]_vars

\* The generation side: sweeps, single generations, provider failures, deletes.
NextSweep ==
    \/ \E body \in ExperimentCreate : create_experiment(body)
    \/ \E e \in ExperimentIds, st \in StatusInputs : update_experiment_status(e, st)
    \/ \E e \in ExperimentIds : delete_experiment(e)
    \/ \E e \in ExperimentIds : start_generation(e)
    \/ \E s \in SweepIds : SweepCheck(s)
    \/ \E s \in SweepIds, content \in LLMContents : SweepCreate(s, content)
    \/ \E s \in SweepIds : SweepFinish(s)
    \/ \E e \in ExperimentIds, t \in TaskInputs, m \in SingleModels, content \in LLMContents :
          generate_single(e, t, m.provider, m.model, "structured", content)
    \/ restart

SpecSweep == Init /\ [][NextSweep]_vars

\* The evaluation side, over Generations made one at a time.
NextEval ==
    \/ \E body \in SingleModelExperiment : create_experiment(body)
    \/ \E e \in ExperimentIds : delete_experiment(e)
    \/ \E e \in ExperimentIds, m \in SingleModels :
          generate_single(e, "A", m.provider, m.model, "structured", "text")
    \/ \E e \in ExperimentIds, g \in {NULL} \cup {u.id : u \in generations}, b \in BlindIds :
          get_next_blind_item(e, g, b)
    \/ \E b \in BlindIds : submit_evaluation(b)
    \/ \E b \in BlindIds : skip_blind_item(b)
    \/ \E id \in 1..(Cardinality(evaluations) + 1) : delete_evaluation(id)
    \/ restart

SpecEval == Init /\ [][NextEval]_vars

\* The evaluation side with submit_evaluation run by concurrent worker threads.
NextConc ==
    \/ \E body \in SingleModelExperiment : create_experiment(body)
    \/ \E e \in ExperimentIds, m \in SingleModels :
          generate_single(e, "A", m.provider, m.model, "structured", "text")
    \/ \E e \in ExperimentIds, g \in {NULL} \cup {u.id : u \in generations}, b \in BlindIds :
          get_next_blind_item(e, g, b)
    \/ \E t \in Threads, b \in BlindIds : SubmitLookup(t, b)
    \/ \E t \in Threads : SubmitQuery(t)
    \/ \E t \in Threads : SubmitInsert(t)
    \/ \E t \in Threads : SubmitRelease(t)
    \/ \E t \in Threads : SubmitComplete(t)
    \/ \E b \in BlindIds : skip_blind_item(b)

SpecConc == Init /\ [][NextConc]_vars

\* Reveal after blind evaluation, over Generations of two providers.
RevealModels == {[provider |-> "openai", model |-> "gpt-4"],
                 [provider |-> "anthropic", model |-> "claude-3-opus"]}

NextReveal ==
    \/ \E body \in SingleModelExperiment : create_experiment(body)
    \/ \E e \in ExperimentIds, m \in RevealModels :
          generate_single(e, "A", m.provider, m.model, "structured", "text")
    \/ \E e \in ExperimentIds, g \in {NULL} \cup {u.id : u \in generations}, b \in BlindIds :
          get_next_blind_item(e, g, b)
    \/ \E b \in BlindIds : submit_evaluation(b)
    \/ \E b \in BlindIds : skip_blind_item(b)
    \/ \E id \in 1..(Cardinality(evaluations) + 1) : delete_evaluation(id)
    \/ \E b \in BlindIds, id \in {NULL} \cup {v.id : v \in evaluations} :
          reveal_generation_details(b, id)
    \/ restart

SpecReveal == Init /\ [][NextReveal]_vars

\* The sweeps on their own. The event loop runs its ready tasks in turn, so a
\* sweep step that is possible again and again is taken: strong fairness, a
\* sweep waiting in asyncio.sleep is not overtaken for ever by later requests.
NextLive ==
    \/ \E body \in ExperimentCreate : create_experiment(body)
    \/ \E e \in ExperimentIds : start_generation(e)
    \/ \E s \in SweepIds : SweepCheck(s)
    \/ \E s \in SweepIds, content \in LLMContents : SweepCreate(s, content)
    \/ \E s \in SweepIds : SweepFinish(s)

SpecLive ==
    /\ Init
    /\ [][NextLive]_vars
    /\ \A s \in SweepIds :
          /\ SF_vars(SweepCheck(s))
          /\ SF_vars(\E content \in LLMContents : SweepCreate(s, content))
          /\ SF_vars(SweepFinish(s))

\* Request bodies of POST /api/evaluations/ for blind_id: the form's body, one
\* with a score above the scale, one with a score below it, one with another
\* publish answer, and one without would_publish.
SubmitBodies(blind_id) ==
    { EvaluationBody(blind_id),
      [EvaluationBody(blind_id) EXCEPT !.voice_match = 6],
      [EvaluationBody(blind_id) EXCEPT !.overall_quality = 0],
      [EvaluationBody(blind_id) EXCEPT !.would_publish = "maybe"],
      [f \in EvaluationSubmitFields \ {"would_publish"} |-> EvaluationBody(blind_id)[f]] }

\* Submissions with any of these bodies.
NextSubmit ==
    \/ \E body \in SingleModelExperiment : create_experiment(body)
    \/ \E e \in ExperimentIds, m \in SingleModels :
          generate_single(e, "A", m.provider, m.model, "structured", "text")
    \/ \E e \in ExperimentIds, g \in {NULL} \cup {u.id : u \in generations}, b \in BlindIds :
          get_next_blind_item(e, g, b)
    \/ \E b \in BlindIds : \E evaluation_data \in SubmitBodies(b) :
          submit_evaluation_data(evaluation_data)
    \/ \E b \in BlindIds : skip_blind_item(b)

SpecSubmit == Init /\ [][NextSubmit]_vars

\* Baseline samples: two plain ones and one that quotes a placeholder.
SampleTexts == {<<"alpha">>, <<"beta">>, <<"see", "{sample2}">>}

\* Pools of at most n samples.
RECURSIVE Pools(_)
Pools(n) ==
    IF n = 0 THEN {<< >>}
    ELSE Pools(n - 1) \cup {Append(p, t) : p \in {q \in Pools(n - 1) : Len(q) = n - 1},
                                           t \in SampleTexts}

\* prepare_prompt on its own, over every pool and every draw.
NextPrompt ==
    \E task \in tasks, strategy \in PromptStrategyValues \cup {"freeform"},
       baseline_samples \in Pools(MaxPool), i \in 1..MaxPool, j \in 1..MaxPool :
          /\ i <= Max({1, Len(baseline_samples)})
          /\ j <= Max({1, Len(baseline_samples)})
          /\ prepare_prompt(task, strategy, baseline_samples, i, j)

SpecPrompt == Init /\ [][NextPrompt]_vars

\* The generation side with the progress route polled between the steps.
NextProgress ==
    \/ \E body \in WellFormedExperiment : create_experiment(body)
    \/ \E e \in ExperimentIds : start_generation(e)
    \/ \E s \in SweepIds : SweepCheck(s)
    \/ \E s \in SweepIds, content \in LLMContents : SweepCreate(s, content)
    \/ \E s \in SweepIds : SweepFinish(s)
    \/ \E e \in ExperimentIds, m \in SingleModels, content \in LLMContents :
          generate_single(e, "A", m.provider, m.model, "structured", content)
    \/ \E e \in ExperimentIds : get_generation_progress(e)

SpecProgress == Init /\ [][NextProgress]_vars

\* One experiment of one model, one strategy and one task from sweep to
\* reveal, every provider call succeeding.
NextEndToEnd ==
    \/ \E body \in SingleModelExperiment : create_experiment(body)
    \/ \E e \in ExperimentIds : start_generation(e)
    \/ \E s \in SweepIds : SweepCheck(s)
    \/ \E s \in SweepIds : SweepCreate(s, "text")
    \/ \E s \in SweepIds : SweepFinish(s)
    \/ \E e \in ExperimentIds, g \in {NULL} \cup {u.id : u \in generations}, b \in BlindIds :
          get_next_blind_item(e, g, b)
    \/ \E b \in BlindIds : submit_evaluation(b)
    \/ \E b \in BlindIds, id \in {NULL} \cup {v.id : v \in evaluations} :
          reveal_generation_details(b, id)

SpecEndToEnd == Init /\ [][NextEndToEnd]_vars

\* ============================================================== claims
StatusRank(status) == CHOOSE k \in DOMAIN valid_statuses : valid_statuses[k] = status

\* The key of the sweep's existence query.
SameKey(g1, g2) ==
    /\ g1.experiment_id = g2.experiment_id
    /\ g1.task_id = g2.task_id
    /\ g1.model_provider = g2.model_provider
    /\ g1.prompt_strategy = g2.prompt_strategy

\* The Generations of experiment_id stored for combination c (model included).
StoredFor(experiment_id, c) ==
    {g \in GenerationsOf(experiment_id) : /\ g.task_id = c.task_id
                                          /\ g.model_provider = c.provider
                                          /\ g.model_name = c.model
                                          /\ g.prompt_strategy = c.strategy}

\* Sweep s returns from the end of its loops in this step.
Finishing(s) ==
    /\ sweeps[s].pc = "loop"
    /\ sweeps[s].i > sweeps[s].total_combinations
    /\ sweeps'[s].pc = "done"

\* Every Generation the experiment gained since sweep s began is one s created.
Undisturbed(s) ==
    Cardinality(GenerationsOf(sweeps[s].experiment_id)) = sweeps[s].count0 + sweeps[s].created

C2_OneOutstandingPerGeneration ==
    \A b1, b2 \in DOMAIN blind_id_cache :
        b1 # b2 => blind_id_cache[b1] # blind_id_cache[b2]

\* C3: of two concurrent submit requests carrying the same outstanding blind id,
\* at most one persists an Evaluation, the other ends in an error, and the
\* Generation ends with one Evaluation.
C3_ConcurrentSubmitPersistsOnce ==
    \A t1, t2 \in Threads :
        (/\ t1 # t2
         /\ submits[t1].pc = "done" /\ submits[t2].pc = "done"
         /\ submits[t1].blind_id = submits[t2].blind_id
         /\ submits[t1].generation_id = submits[t2].generation_id
         /\ submits[t1].generation_id # NULL)
        => /\ ~(submits[t1].inserted /\ submits[t2].inserted)
           /\ submits[t1].code # 200 \/ submits[t2].code # 200
           /\ Cardinality(EvaluationsFor(submits[t1].generation_id)) <= 1

\* C4: a sweep invoked when N of the M combinations have a stored Generation
\* creates exactly M - N Generations (stated of a sweep that nothing else
\* generated alongside).
C4_ResumeCreatesMissing ==
    [][\A s \in SweepIds :
          (Finishing(s) /\ Undisturbed(s))
          => sweeps[s].created = sweeps[s].total_combinations - sweeps[s].existing0]_vars

\* C5: when a sweep finishes, every (model, strategy, task) triple of the
\* experiment has exactly one Generation (stated of a sweep that began on an
\* experiment without Generations and that nothing else generated alongside).
C5_SweepCoversEveryTriple ==
    [][\A s \in SweepIds :
          (Finishing(s) /\ Undisturbed(s) /\ sweeps[s].count0 = 0)
          => LET x == ExperimentRow(sweeps[s].experiment_id)
             IN \A k \in 1..TotalCombinations(x) :
                   Cardinality(StoredFor(x.id, Combination(x, k))) = 1]_vars

\* C6 as stated: at most one Generation per (experiment_id, task_id, provider,
\* strategy), whatever sweeps and single generations produced the state.
C6_UniqueKey ==
    \A g1, g2 \in generations :
        (g1.experiment_id # NULL /\ SameKey(g1, g2)) => g1 = g2

\* C6 amended: of two Generations with one key the later one was never created
\* by a sweep; only generate_single adds a Generation to a key that has one.
C6_SweepNeverAddsToKey ==
    \A g1, g2 \in generations :
        (g1.experiment_id # NULL /\ SameKey(g1, g2) /\ g1.id < g2.id) => g2.id \notin swept

\* C6 witness: a sweep passed a combination whose key holds two Generations.
C6_Witness ==
    \E s \in SweepIds :
        /\ sweeps[s].pc = "loop" /\ sweeps[s].completed >= 1 /\ sweeps[s].created = 0
        /\ \E g1, g2 \in GenerationsOf(sweeps[s].experiment_id) : g1 # g2 /\ SameKey(g1, g2)

\* C7: interleaved sweeps never create two Generations for one combination:
\* when a sweep creates, the combination still has no Generation, as its
\* existence check found.
C7_CheckAndCreateAtomic ==
    [][\A s \in SweepIds :
          (sweeps[s].pc = "create" /\ sweeps'[s].pc = "loop" /\ generations' # generations)
          => LET c == Combination(ExperimentRow(sweeps[s].experiment_id), sweeps[s].i)
             IN ExistingGeneration(sweeps[s].experiment_id, c.task_id, c.provider, c.strategy) = {}]_vars

\* C7 witness: two sweeps of one experiment are in flight; one created the
\* first combination's Generation and the other passed it without creating.
C7_Witness ==
    \E s1, s2 \in SweepIds :
        /\ s1 # s2
        /\ sweeps[s1].pc = "loop" /\ sweeps[s2].pc = "loop"
        /\ sweeps[s1].experiment_id = sweeps[s2].experiment_id
        /\ sweeps[s1].completed >= 1 /\ sweeps[s1].created >= 1
        /\ sweeps[s2].completed >= 1 /\ sweeps[s2].created = 0

\* C8: an experiment's status never moves to an earlier stage (stated of every
\* step but the explicit status update).
C8_StatusMonotonic ==
    [][(~ \E e \in ExperimentIds, st \in StatusInputs : update_experiment_status(e, st))
       => \A x \in experiments, y \in experiments' :
             x.id = y.id => StatusRank(x.status) <= StatusRank(y.status)]_vars

\* C9: in every reachable state no experiment has more Evaluations than
\* Generations.
C9_EvaluationsAtMostGenerations ==
    \A e \in ExperimentIds :
        Cardinality(EvaluationsOf(e)) <= Cardinality(GenerationsOf(e))

\* C10: an experiment with as many Evaluations as Generations is complete
\* (stated of experiments that have Generations).
C10_AllEvaluatedIsComplete ==
    \A x \in experiments :
        (/\ Cardinality(GenerationsOf(x.id)) > 0
         /\ Cardinality(EvaluationsOf(x.id)) = Cardinality(GenerationsOf(x.id)))
        => x.status = "complete"

\* The request that just returned is a successful submit of blind_id.
SubmitSucceeded(blind_id) ==
    /\ blind_id \in DOMAIN blind_id_cache
    /\ response' = Respond("submit_evaluation", 200, blind_id)

C12_CompletionRaceSafe ==
    \A x \in experiments :
        (/\ \A t \in Threads : submits[t].pc = "done" /\ submits[t].inserted
         /\ GenerationsOf(x.id) # {}
         /\ \A g \in GenerationsOf(x.id) : EvaluationsFor(g.id) # {})
        => x.status = "complete"

\* blind_id is outstanding and resolves to a Generation that has an Evaluation,
\* or is no longer outstanding and is the blind_id of a stored Evaluation.
Replayed(blind_id) ==
    \/ /\ blind_id \in DOMAIN blind_id_cache
       /\ EvaluationsFor(blind_id_cache[blind_id]) # {}
    \/ /\ blind_id \notin DOMAIN blind_id_cache
       /\ \E v \in evaluations : v.blind_id = blind_id

C14_UnknownBlindIdRefused ==
    [][\A b \in BlindIds :
          (/\ submit_evaluation(b)
           /\ b \notin DOMAIN blind_id_cache
           /\ \A v \in evaluations : v.blind_id # b)
          => /\ response' = Respond("submit_evaluation", 400, "Invalid blind_id")
             /\ UNCHANGED <<evaluations, blind_id_cache, experiments>>]_vars

\* C14 witness: an unknown blind id was just refused while another identifier
\* is outstanding and an Evaluation is stored.
C14_Witness ==
    /\ response = Respond("submit_evaluation", 400, "Invalid blind_id")
    /\ DOMAIN blind_id_cache # {}
    /\ evaluations # {}

\* C15: a successful submit adds exactly one Evaluation, for the Generation the
\* blind id is registered for and recording the blind id, and the blind id is
\* no longer outstanding afterwards.
C15_SubmitPersistsAndReleases ==
    [][\A b \in BlindIds : SubmitSucceeded(b) =>
          /\ \E v \in evaluations' :
                /\ v \notin evaluations
                /\ evaluations' = evaluations \cup {v}
                /\ v.generation_id = blind_id_cache[b]
                /\ v.blind_id = b
          /\ b \notin DOMAIN blind_id_cache'
          /\ \A c \in DOMAIN blind_id_cache \ {b} :
                c \in DOMAIN blind_id_cache' /\ blind_id_cache'[c] = blind_id_cache[c]]_vars

\* C15 witness: a submit just succeeded; its blind id is released, its
\* Evaluation is stored, and another identifier is still outstanding.
C15_Witness ==
    /\ response.op = "submit_evaluation" /\ response.code = 200
    /\ response.detail \notin DOMAIN blind_id_cache
    /\ \E v \in evaluations : v.blind_id = response.detail
    /\ DOMAIN blind_id_cache # {}

C17_SkipUnknownIsNoOp ==
    [][\A b \in BlindIds :
          (skip_blind_item(b) /\ b \notin DOMAIN blind_id_cache) =>
             /\ response' = Respond("skip_blind_item", 404, "Blind item not found")
             /\ UNCHANGED <<blind_id_cache, evaluations, experiments, generations>>]_vars

\* C17 witness: a skip was just refused for an identifier that was submitted
\* before, while another identifier is outstanding.
C17_Witness ==
    /\ response = Respond("skip_blind_item", 404, "Blind item not found")
    /\ DOMAIN blind_id_cache # {}
    /\ \E v \in evaluations : v.blind_id \notin DOMAIN blind_id_cache

\* C18: issue returns empty exactly when no Generation of the experiment is
\* without an Evaluation and without an outstanding assignment, and otherwise
\* returns a Generation that has neither.
C18_IssueFromEligiblePool ==
    [][\A e \in ExperimentIds, g \in {NULL} \cup {u.id : u \in generations}, b \in BlindIds :
          get_next_blind_item(e, g, b) =>
             LET eligible == {u.id : u \in {w \in Unevaluated(e) :
                                \A c \in DOMAIN blind_id_cache : blind_id_cache[c] # w.id}}
             IN IF eligible = {}
                THEN response' = Respond("get_next_blind_item", 200, "null")
                ELSE /\ response' = Respond("get_next_blind_item", 200, b)
                     /\ g \in eligible]_vars

\* C19: the blind id issue mints is none of the outstanding ones, so every
\* outstanding assignment keeps its target.
C19_MintedIdIsFresh ==
    [][\A e \in ExperimentIds, g \in {u.id : u \in generations}, b \in BlindIds :
          (get_next_blind_item(e, g, b) /\ response' = Respond("get_next_blind_item", 200, b)) =>
             /\ b \notin DOMAIN blind_id_cache
             /\ \A c \in DOMAIN blind_id_cache : blind_id_cache'[c] = blind_id_cache[c]]_vars

\* C20: the items issued for two Generations with the same content and task
\* are equal apart from the blind id, whatever their provider, model and
\* strategy.
C20_EvaluatorBlindness ==
    \A b1, b2 \in DOMAIN blind_id_cache :
        LET g1 == GenerationRow(blind_id_cache[b1])
            g2 == GenerationRow(blind_id_cache[b2])
        IN (g1.generated_content = g2.generated_content /\ g1.task_id = g2.task_id)
           => [BlindItem(b1, g1) EXCEPT !.blind_id = ""] = [BlindItem(b2, g2) EXCEPT !.blind_id = ""]

\* C20 witness: two items are outstanding for Generations of different
\* providers and models with the same content and task.
C20_Witness ==
    \E b1, b2 \in DOMAIN blind_id_cache :
        LET g1 == GenerationRow(blind_id_cache[b1])
            g2 == GenerationRow(blind_id_cache[b2])
        IN /\ g1.model_provider # g2.model_provider
           /\ g1.model_name # g2.model_name
           /\ g1.generated_content = g2.generated_content
           /\ g1.task_id = g2.task_id

C23_StatusAroundSweep ==
    [][/\ \A e \in ExperimentIds :
            (start_generation(e) /\ ExperimentRows(e) # {}) =>
                /\ ExperimentRow(e)'.status = "generating"
                /\ \E s \in SweepIds :
                      /\ sweeps[s].pc \in {"idle", "done"}
                      /\ sweeps'[s].pc = "loop"
                      /\ sweeps'[s].experiment_id = e
                      /\ sweeps'[s].i = 1
                      /\ sweeps'[s].completed = 0
       /\ \A s \in SweepIds :
            SweepFinish(s) =>
                /\ sweeps[s].completed = sweeps[s].total_combinations
                /\ \A e \in ExperimentIds :
                      sweeps[s].experiment_id = e => ExperimentRow(e)'.status = "evaluating"
       /\ \A s \in SweepIds :
            (SweepCheck(s) \/ \E content \in LLMContents : SweepCreate(s, content))
                => experiments' = experiments]_vars

\* A sweep has returned and left status evaluating although the one call it
\* made failed.
C23_Witness ==
    \E s \in SweepIds, g \in generations :
        /\ sweeps[s].pc = "done"
        /\ g.id \in swept
        /\ g.generated_content = ""
        /\ g.experiment_id # NULL
        /\ ExperimentRow(g.experiment_id).status = "evaluating"
        /\ Cardinality(generations) = 1

\* C24: when the attempt of one combination fails, by a failed provider call
\* or by an exception, the sweep counts it in completed and goes on with the
\* next combination; it returns only after the last one.
C24_FailureDoesNotStopSweep ==
    [][\A s \in SweepIds :
         /\ (\E content \in LLMContents : SweepCreate(s, content))
               => /\ sweeps'[s].pc = "loop"
                  /\ sweeps'[s].i = sweeps[s].i + 1
                  /\ sweeps'[s].completed = sweeps[s].completed + 1
                  /\ sweeps'[s].total_combinations = sweeps[s].total_combinations
                  /\ sweeps'[s].experiment_id = sweeps[s].experiment_id
         /\ SweepFinish(s) => sweeps[s].i = sweeps[s].total_combinations + 1]_vars

\* A sweep whose first attempt raised (a strategy that is no PromptStrategy
\* value) has counted it and created the Generation of the second combination.
C24_Witness ==
    \E s \in SweepIds :
        /\ sweeps[s].pc = "loop"
        /\ sweeps[s].total_combinations = 2
        /\ sweeps[s].existing0 = 0
        /\ sweeps[s].completed = 2
        /\ sweeps[s].created = 1
        /\ ExperimentRow(sweeps[s].experiment_id).selected_strategies[1] \notin PromptStrategyValues
        /\ \E g \in generations : g.id \in swept /\ g.experiment_id = sweeps[s].experiment_id

\* C25: a failed provider call is not propagated: the sweep goes on and the
\* single path answers with success, and the Generation stored for the call
\* has empty content, zero prompt and completion tokens and zero cost.
C25_FailedCallStoredEmpty ==
    [][/\ \A s \in SweepIds :
            (SweepCreate(s, None) /\ generations' # generations) =>
                /\ sweeps'[s].pc = "loop"
                /\ \E g \in generations' \ generations :
                      /\ generations' = generations \cup {g}
                      /\ g.generated_content = ""
                      /\ g.prompt_tokens = 0 /\ g.completion_tokens = 0 /\ g.cost_usd = 0
       /\ \A e \in ExperimentIds, m \in SingleModels :
            (generate_single(e, "A", m.provider, m.model, "structured", None)
               /\ ExperimentRows(e) # {}) =>
                /\ response'.code = 200
                /\ \E g \in generations' \ generations :
                      /\ generations' = generations \cup {g}
                      /\ g.generated_content = ""
                      /\ g.prompt_tokens = 0 /\ g.completion_tokens = 0 /\ g.cost_usd = 0]_vars

\* Both outcomes are stored: a Generation of a failed call, empty and free, and
\* one of a successful call, with its usage and cost.
C25_Witness ==
    \E g1, g2 \in generations :
        /\ g1.generated_content = "" /\ g1.cost_usd = 0 /\ g1.prompt_tokens = 0
        /\ g2.generated_content # "" /\ g2.cost_usd > 0 /\ g2.prompt_tokens > 0

C27_SweepEndsEvaluating ==
    \A s \in SweepIds :
        (sweeps[s].pc = "loop") ~>
            (sweeps[s].pc = "done" /\ \E x \in experiments : x.status = "evaluating")

\* C28: no automatic retry. A sweep calls the provider at most once for a
\* combination, and no sweep calls it for a combination that has a stored
\* Generation with empty content: a further Generation for such a combination
\* comes from the single path only.
C28_NoAutomaticRetry ==
    [][/\ \A s \in SweepIds :
            (sweeps[s].pc \in {"loop", "create"} /\ sweeps'[s].pc \in {"loop", "create"}) =>
                /\ sweeps'[s].i >= sweeps[s].i
                /\ sweeps'[s].created - sweeps[s].created <= sweeps'[s].i - sweeps[s].i
       /\ Cardinality(swept' \ swept) <= 1
       /\ \A g \in generations' \ generations :
            (\E h \in generations :
                h.generated_content = "" /\ h.experiment_id # NULL /\ SameKey(h, g))
               => g.id \notin swept']_vars

\* The call of a sweep failed; a later sweep has passed the combination without
\* a call, and the single path has added a second Generation for it.
C28_Witness ==
    \E s \in SweepIds, g1, g2 \in generations :
        /\ g1.id \in swept /\ g1.generated_content = ""
        /\ g2.id \notin swept /\ g2.id > g1.id /\ SameKey(g1, g2)
        /\ sweeps[s].pc = "loop" /\ sweeps[s].completed >= 1 /\ sweeps[s].created = 0
        /\ sweeps[s].experiment_id = g1.experiment_id
        /\ sweeps[s].count0 >= 1

\* C29: generate_single on an existing experiment and task adds exactly one
\* new Generation, also when the key (experiment, task, provider, strategy)
\* already has one; it changes no status.
C29_SingleAlwaysCreates ==
    [][\A e \in ExperimentIds, t \in TaskInputs, m \in SingleModels, content \in LLMContents :
         (/\ generate_single(e, t, m.provider, m.model, "structured", content)
          /\ ExperimentRows(e) # {}
          /\ \E k \in tasks : k.id = t) =>
             /\ response' = Respond("generate_single", 200, "")
             /\ experiments' = experiments
             /\ generations \subseteq generations'
             /\ Cardinality(generations' \ generations) = 1
             /\ \A g \in generations' \ generations :
                   /\ g.id \notin {h.id : h \in generations}
                   /\ g.experiment_id = e /\ g.task_id = t
                   /\ g.model_provider = m.provider /\ g.model_name = m.model
                   /\ g.prompt_strategy = "structured"]_vars

\* generate_single has just added a second Generation to a key that had one;
\* the experiment is still in setup.
C29_Witness ==
    /\ response = Respond("generate_single", 200, "")
    /\ \E g1, g2 \in generations :
          /\ g1.id < g2.id /\ SameKey(g1, g2) /\ g1.model_name = g2.model_name
          /\ g1.id \notin swept /\ g2.id \notin swept
          /\ g1.experiment_id # NULL
          /\ ExperimentRow(g1.experiment_id).status = "setup"

\* C30: after delete_experiment succeeds, no Generation and no Evaluation that
\* belonged to the experiment remains in the store.
C30_DeleteCascades ==
    [][\A e \in ExperimentIds :
         (delete_experiment(e) /\ ExperimentRows(e) # {}) =>
            /\ \A g \in GenerationsOf(e) : \A h \in generations' : h.id # g.id
            /\ \A v \in EvaluationsOf(e) : \A w \in evaluations' : w.id # v.id]_vars

\* C31: update-status takes only setup, generating, evaluating and complete:
\* any other value is answered with a client error and the stored status
\* stays; a request for an experiment that does not exist is answered not
\* found and changes nothing.
C31_StatusUpdateValidated ==
    [][\A e \in ExperimentIds, st \in StatusInputs :
         update_experiment_status(e, st) =>
            IF \A x \in experiments : x.id # e
            THEN /\ response'.code = 404
                 /\ <<experiments, generations, evaluations>>' =
                        <<experiments, generations, evaluations>>
            ELSE IF st \in {"setup", "generating", "evaluating", "complete"}
            THEN /\ response'.code = 200
                 /\ \A x \in experiments' : x.id = e => x.status = st
            ELSE /\ response'.code = 400
                 /\ <<experiments, generations, evaluations>>' =
                        <<experiments, generations, evaluations>>]_vars

\* A stored experiment in status evaluating keeps it after a request with a
\* value outside the four.
C31_Witness ==
    /\ response = Respond("update_experiment_status", 400, "Invalid status")
    /\ \E x \in experiments : x.status = "evaluating"

\* C32: every stored Evaluation has its five scores in 1..5 and would_publish
\* in {yes, no, with_edits}.
C32_ScoresInRange ==
    \A v \in evaluations :
        /\ \A f \in {"voice_match", "coherence", "engaging", "meets_brief", "overall_quality"} :
              v[f] \in 1..5
        /\ v.would_publish \in {"yes", "no", "with_edits"}

\* The template with {sample1} standing for a and {sample2} for b.
RECURSIVE Filled(_, _, _)
Filled(template, a, b) ==
    IF template = << >> THEN << >>
    ELSE (CASE Head(template) = "{sample1}" -> a
            [] Head(template) = "{sample2}" -> b
            [] OTHER -> <<Head(template)>>) \o Filled(Tail(template), a, b)

\* C33: prepare_prompt with the example-based strategy fills {sample1} and
\* {sample2}: with an empty pool both are empty, with one sample both are that
\* sample, with two or more they are the entries at two different positions of
\* the pool; with the structured strategy the structured prompt is returned
\* as it is.
C33_PromptFilled ==
    (response.op = "prepare_prompt" /\ response.code = 200) =>
        LET d == response.detail
            task == TaskRow(d.task_id)
            pool == d.baseline_samples
        IN IF d.strategy = "structured" THEN d.prompt = task.structured_prompt
           ELSE IF Len(pool) = 0
                THEN d.prompt = Filled(task.example_prompt_template, << >>, << >>)
           ELSE IF Len(pool) = 1
                THEN d.prompt = Filled(task.example_prompt_template, pool[1], pool[1])
           ELSE \E i, j \in DOMAIN pool :
                   /\ i # j
                   /\ d.prompt = Filled(task.example_prompt_template, pool[i], pool[j])

\* C34: for an experiment with one task, one model and one strategy whose
\* provider call succeeds, the sweep leaves exactly one Generation and status
\* evaluating; the submit of its blind item then sets status complete, and
\* reveal on that blind id names the provider and model of that Generation.
C34_EndToEnd ==
    [][/\ \A s \in SweepIds, e \in ExperimentIds :
            (SweepFinish(s) /\ sweeps[s].experiment_id = e) =>
                /\ Cardinality(GenerationsOf(e)) = 1
                /\ \A g \in GenerationsOf(e) : g.generated_content = "text"
                /\ ExperimentRow(e)'.status = "evaluating"
       /\ \A b \in BlindIds, e \in ExperimentIds :
            (SubmitSucceeded(b) /\ GenerationRow(blind_id_cache[b]).experiment_id = e) =>
                ExperimentRow(e)'.status = "complete"
       /\ \A b \in BlindIds, id \in {v.id : v \in evaluations} :
            reveal_generation_details(b, id) =>
                \E g \in generations :
                   /\ \E v \in evaluations : v.blind_id = b /\ v.generation_id = g.id
                   /\ response' = Respond("reveal_generation_details", 200,
                         g.model_provider \o "/" \o g.model_name \o "/" \o g.prompt_strategy)]_vars

\* The scenario has run to its end: no sweep in flight, the one Generation
\* evaluated, the status complete, and the reveal answered with its model.
C34_Witness ==
    /\ \A s \in SweepIds : sweeps[s].pc \in {"idle", "done"}
    /\ \E x \in experiments : x.status = "complete"
    /\ Cardinality(generations) = 1 /\ Cardinality(evaluations) = 1
    /\ \A g \in generations : g.id \in swept
    /\ response = Respond("reveal_generation_details", 200, "openai/gpt-4/structured")

\* No registry entry and no stored Evaluation names blind_id.
AbsentBlindId(blind_id) ==
    /\ blind_id \notin DOMAIN blind_id_cache
    /\ \A v \in evaluations : v.blind_id # blind_id

\* C35: a request naming an absent evaluation or blind id is answered 404, a
\* duplicate submission is answered 400, and no request naming an absent id is
\* answered 400.
C35_ErrorKinds ==
    [][/\ \A b \in BlindIds :
            /\ (AbsentBlindId(b) /\ submit_evaluation(b)) => response'.code = 404
            /\ (AbsentBlindId(b) /\ skip_blind_item(b)) => response'.code = 404
            /\ (AbsentBlindId(b) /\ reveal_generation_details(b, NULL)) => response'.code = 404
            /\ (/\ b \in DOMAIN blind_id_cache
                /\ EvaluationsFor(blind_id_cache[b]) # {}
                /\ submit_evaluation(b)) => response'.code = 400
       /\ \A id \in 1..(Cardinality(evaluations) + 1) :
            ((\A v \in evaluations : v.id # id) /\ delete_evaluation(id))
                => response'.code = 404]_vars


\* C36: every outstanding blind id maps to a stored Generation that has no
\* Evaluation, so no blind id of an evaluated Generation stays in the registry.
C36_RegistryTargetsUnevaluated ==
    \A b \in DOMAIN blind_id_cache :
        /\ \E g \in generations : g.id = blind_id_cache[b]
        /\ EvaluationsFor(blind_id_cache[b]) = {}


\* C37: the blind ids of the stored Evaluations are pairwise distinct, so a
\* reveal request matches at most one Evaluation.
C37_BlindIdsDistinct ==
    \A v1, v2 \in evaluations : v1.blind_id = v2.blind_id => v1 = v2


\* C38: no experiment is complete while a sweep over it is still in its loops
\* with combinations left to process.
C38_NoCompleteDuringSweep ==
    \A s \in SweepIds :
        (/\ sweeps[s].pc \in {"loop", "create"}
         /\ sweeps[s].i <= sweeps[s].total_combinations)
        => \A x \in ExperimentRows(sweeps[s].experiment_id) : x.status # "complete"


\* C39: a complete experiment has at least one Generation and every one of its
\* Generations has an Evaluation.
C39_CompleteMeansAllEvaluated ==
    \A x \in experiments :
        x.status = "complete" =>
            /\ GenerationsOf(x.id) # {}
            /\ \A g \in GenerationsOf(x.id) : EvaluationsFor(g.id) # {}
            /\ Cardinality(EvaluationsOf(x.id)) = Cardinality(GenerationsOf(x.id))


\* C40: every progress report the service computes has failed <= completed <=
\* total, in_progress >= 0 and percentage <= 100, with total the product of the
\* three selection sizes, completed the number of stored Generations of the
\* experiment and failed the number of those with empty content; the route
\* answers with the schema's fields of that report.
C40_ProgressConsistent ==
    [][\A e \in ExperimentIds :
          (get_generation_progress(e) /\ response'.code = 200) =>
             LET x == ExperimentRow(e)
                 p == generation_progress(x)
             IN /\ response'.detail = GenerationProgress(p)
                /\ p.failed <= p.completed
                /\ p.completed <= p.total
                /\ p.in_progress >= 0
                /\ p.percentage <= 1000
                /\ p.total = Len(x.selected_models) * Len(x.selected_strategies)
                                 * Len(x.selected_tasks)
                /\ p.completed = Cardinality(GenerationsOf(e))
                /\ p.failed = Cardinality({g \in GenerationsOf(e) : g.generated_content = ""})]_vars

====
